---- MODULE Spec2Model ----
(***************************************************************************)
(* Customer similarity graph and closeness-centrality analysis             *)
(* (part3/src/main.rs, graph_utils.rs, customer.rs).                       *)
(*                                                                         *)
(* Strings are TLA+ strings; the integer and float formatting that the     *)
(* code performs with to_string()/format!() is computed digit by digit.    *)
(* Slices and vectors are sequences (1-based); NodeIndex values are the    *)
(* 0-based indices petgraph hands out, so NodeIndex k of a list s is       *)
(* s[k + 1].  f64 values are exact rationals plus the two special values   *)
(* infinity and NaN.                                                       *)
(***************************************************************************)
EXTENDS Integers, Sequences, FiniteSets, TLC

VARIABLES
    \* ---- the pipeline of main() ----
    pc,                    \* position in main()
    customers,             \* Vec<Customer> read from the input
    graph,                 \* Graph<&Customer, (), Undirected>
    not_churn_customers,   \* first half of the partition
    churn_customers,       \* second half of the partition
    churn_centrality,      \* HashMap<NodeIndex, f64>
    not_churn_centrality,  \* HashMap<NodeIndex, f64>
    churn_high_centrality_nodes,
    not_churn_high_centrality_nodes,
    churn_report,          \* what print_top_shared_characteristics did
    not_churn_report,      \* for the churned and for the other customers
    \* ---- direct calls of the similarity predicate ----
    arg_a, arg_b,          \* the two customers passed in
    called,                \* which function has returned ("none" before)
    neighbor_ab,           \* determine_neighbor(a, b)
    neighbor_ba,           \* determine_neighbor(b, a)
    shared_ab,             \* get_shared_characteristics(a, b)
    shared_aa,             \* get_shared_characteristics(a, a)
    \* ---- direct calls of the selector ----
    sel_centrality,        \* the centrality map passed in
    sel_factor,            \* threshold_factor
    sel_called,            \* whether the selector has returned
    sel_result,            \* the nodes it returned
    \* ---- the report loop on its own ----
    agg_separated_counts,  \* separated_counts when the node loop is over
    agg_called,            \* whether the report loop has run
    agg_report             \* what it printed

vars == << pc, customers, graph, not_churn_customers, churn_customers,
           churn_centrality, not_churn_centrality,
           churn_high_centrality_nodes, not_churn_high_centrality_nodes,
           churn_report, not_churn_report,
           arg_a, arg_b, called, neighbor_ab, neighbor_ba,
           shared_ab, shared_aa,
           sel_centrality, sel_factor, sel_called, sel_result,
           agg_separated_counts, agg_called, agg_report >>

pipelineVars == << pc, customers, graph, not_churn_customers, churn_customers,
                   churn_centrality, not_churn_centrality,
                   churn_high_centrality_nodes,
                   not_churn_high_centrality_nodes,
                   churn_report, not_churn_report >>

pairVars == << arg_a, arg_b, called, neighbor_ab, neighbor_ba,
               shared_ab, shared_aa >>

selVars == << sel_centrality, sel_factor, sel_called, sel_result >>

aggVars == << agg_separated_counts, agg_called, agg_report >>

-----------------------------------------------------------------------------
(* Formatting: i32::to_string and f64::to_string                          *)

Digit(d) ==
    CASE d = 0 -> "0" [] d = 1 -> "1" [] d = 2 -> "2" [] d = 3 -> "3"
      [] d = 4 -> "4" [] d = 5 -> "5" [] d = 6 -> "6" [] d = 7 -> "7"
      [] d = 8 -> "8" [] d = 9 -> "9"

RECURSIVE NatToString(_)
NatToString(n) ==
    IF n < 10 THEN Digit(n)
    ELSE NatToString(n \div 10) \o Digit(n % 10)

\* i32::to_string: decimal digits, a leading '-' for a negative value.
i32_to_string(n) ==
    IF n < 0 THEN "-" \o NatToString(0 - n) ELSE NatToString(n)

\* The fractional digits of a value given in thousandths, trailing zeros
\* dropped (Display prints the shortest decimal that reads back the same).
FracDigits(fr) ==
    IF fr % 100 = 0 THEN Digit(fr \div 100)
    ELSE IF fr % 10 = 0 THEN Digit(fr \div 100) \o Digit((fr \div 10) % 10)
    ELSE Digit(fr \div 100) \o Digit((fr \div 10) % 10) \o Digit(fr % 10)

\* f64::to_string of a non-negative ratio held in thousandths (0.4 is 400):
\* "0.4", "0.055", "1", "0".
f64_to_string(u) ==
    IF u % 1000 = 0 THEN NatToString(u \div 1000)
    ELSE NatToString(u \div 1000) \o "." \o FracDigits(u % 1000)

\* str::parse::<i32>().unwrap_or(default) on the strings the model feeds it:
\* the decimal numerals up to MaxParsed parse, anything else is an error and
\* yields the default.
MaxParsed == 99

parse_i32(s, default) ==
    IF \E n \in 0..MaxParsed : NatToString(n) = s
    THEN CHOOSE n \in 0..MaxParsed : NatToString(n) = s
    ELSE default

-----------------------------------------------------------------------------
(* Customer records                                                        *)

\* The attribute values the records of the model are built from.  Column 1
\* holds the values of the first sample customer of the tests, column 2 those
\* of the second one where the two differ, column 3 a value neither has.
Ages        == << 25, 30, 41 >>
Educations  == << "Graduate", "College", "Unknown" >>
Maritals    == << "Single", "Married", "Divorced" >>
Incomes     == << "$40K - $60K", "Less than $40K", "$120K +" >>
Cards       == << "Silver", "Blue", "Gold" >>
Products    == << 5, 3, 1 >>
Inactives   == << 2, 3, 1 >>
Contacts    == << 8, 12, 2 >>
Tenures     == << 12, 8, 36 >>
Limits      == << 15000, 12000, 5000 >>
Balances    == << 1200, 800, 0 >>
Amounts     == << 5000, 3000, 1500 >>
TxCounts    == << 25, 15, 40 >>
Utilization == << 400, 300, 0 >>      \* thousandths: 0.4, 0.3, 0.0

\* A Customer.  v picks, for each of the eight exact-match attributes, a
\* column of the tables above; the bucketed attributes follow the column of
\* num_contact.
MkCustomer(status, age, v) ==
    [ churn_status          |-> status,
      age                   |-> age,
      one_hot_encoding      |->
          [ education_level |-> Educations[v[2]],
            marital_status  |-> Maritals[v[3]],
            income_range    |-> Incomes[v[4]],
            card_type       |-> Cards[v[5]] ],
      mon_w_bank            |-> Tenures[v[8]],
      num_product_purchased |-> Products[v[6]],
      mon_inactive          |-> Inactives[v[7]],
      num_contact           |-> Contacts[v[8]],
      card_credit_limit     |-> Limits[v[8]],
      evolving_bal          |-> Balances[v[8]],
      transactions_amount   |-> Amounts[v[8]],
      num_transctions       |-> TxCounts[v[8]],
      avg_card_utilize      |-> Utilization[v[8]] ]

create_sample_customer1 ==
    MkCustomer("Existing Customer", 25, << 1, 1, 1, 1, 1, 1, 1, 1 >>)

create_sample_customer2 ==
    MkCustomer("Attrited Customer", 30, << 2, 1, 1, 1, 1, 2, 2, 2 >>)

-----------------------------------------------------------------------------
(* Similarity predicate                                                    *)

\* The closure is_similar of both functions.
is_similar(value_a, value_b) == value_a = value_b

\* The closure in_same_group of both functions: some group label equals both
\* values literally.
in_same_group(value_a, value_b, groups) ==
    \E k \in 1..Len(groups) : value_a = groups[k] /\ value_b = groups[k]

TenureGroups      == << "20-30", "30-40", "40-50", ">50" >>
LimitGroups       == << "5000<", "5000-10000", "10000-15000", "15000-20000",
                        "20000-25000", "25000-30000", ">30000" >>
BalanceGroups     == << "500<", "500-1000", "1000-1500", "1500-2000", ">2000" >>
AmountGroups      == << "500<", "500-1000", "1000-1500", "1500-2000", ">2000" >>
TxCountGroups     == << "<10", "10-20", "20-30", "30-40", ">40" >>
UtilizationGroups == << "<0.100", "0.100-0.200", "0.200-0.300", "0.300-0.400",
                        ">0.400" >>

\* The twelve conditions of determine_neighbor, in the order of the code.
neighbor_checks(customer_a, customer_b) ==
    << is_similar(i32_to_string(customer_a.age), i32_to_string(customer_b.age)),
       is_similar(customer_a.one_hot_encoding.education_level,
                  customer_b.one_hot_encoding.education_level),
       is_similar(customer_a.one_hot_encoding.marital_status,
                  customer_b.one_hot_encoding.marital_status),
       is_similar(customer_a.one_hot_encoding.income_range,
                  customer_b.one_hot_encoding.income_range),
       is_similar(customer_a.one_hot_encoding.card_type,
                  customer_b.one_hot_encoding.card_type),
       in_same_group(i32_to_string(customer_a.mon_w_bank),
                     i32_to_string(customer_b.mon_w_bank), TenureGroups),
       is_similar(i32_to_string(customer_a.num_product_purchased),
                  i32_to_string(customer_b.num_product_purchased)),
       is_similar(i32_to_string(customer_a.mon_inactive),
                  i32_to_string(customer_b.mon_inactive)),
       is_similar(i32_to_string(customer_a.num_contact),
                  i32_to_string(customer_b.num_contact)),
       in_same_group(i32_to_string(customer_a.transactions_amount),
                     i32_to_string(customer_b.transactions_amount), AmountGroups),
       in_same_group(i32_to_string(customer_a.num_transctions),
                     i32_to_string(customer_b.num_transctions), TxCountGroups),
       in_same_group(f64_to_string(customer_a.avg_card_utilize),
                     f64_to_string(customer_b.avg_card_utilize),
                     UtilizationGroups) >>

\* shared_characteristics_count after the first n conditions.
RECURSIVE CountShared(_, _)
CountShared(checks, n) ==
    IF n = 0 THEN 0
    ELSE CountShared(checks, n - 1) + (IF checks[n] THEN 1 ELSE 0)

\* Mutant: the product-count condition compares a's product count with b's
\* inactivity months.
determine_neighbor_crossed(customer_a, customer_b) ==
    LET checks == [ neighbor_checks(customer_a, customer_b) EXCEPT ![7] =
                      is_similar(i32_to_string(customer_a.num_product_purchased),
                                 i32_to_string(customer_b.mon_inactive)) ]
    IN  CountShared(checks, Len(checks)) >= 2

\* Mutant: the threshold test is strict.
determine_neighbor_strict(customer_a, customer_b) ==
    LET checks == neighbor_checks(customer_a, customer_b)
    IN  CountShared(checks, Len(checks)) > 2

determine_neighbor(customer_a, customer_b) ==
    LET checks == neighbor_checks(customer_a, customer_b)
    IN  CountShared(checks, Len(checks)) >= 2

\* One conditional push of get_shared_characteristics.
PushIf(cond, entry) == IF cond THEN << entry >> ELSE << >>

\* The fourteen conditional pushes of get_shared_characteristics, in the
\* order of the code; each is the empty list or the one entry pushed.
shared_pushes(customer_a, customer_b) ==
    << PushIf(is_similar(i32_to_string(customer_a.age), i32_to_string(customer_b.age)),
              "Age: " \o i32_to_string(customer_a.age))
     , PushIf(is_similar(customer_a.one_hot_encoding.education_level,
                         customer_b.one_hot_encoding.education_level),
              "Education Level: " \o customer_a.one_hot_encoding.education_level)
     , PushIf(is_similar(customer_a.one_hot_encoding.marital_status,
                         customer_b.one_hot_encoding.marital_status),
              "Marital Status: " \o customer_a.one_hot_encoding.marital_status)
     , PushIf(is_similar(customer_a.one_hot_encoding.income_range,
                         customer_b.one_hot_encoding.income_range),
              "Income Range: " \o customer_a.one_hot_encoding.income_range)
     , PushIf(is_similar(customer_a.one_hot_encoding.card_type,
                         customer_b.one_hot_encoding.card_type),
              "Card Type: " \o customer_a.one_hot_encoding.card_type)
     , PushIf(in_same_group(i32_to_string(customer_a.mon_w_bank),
                            i32_to_string(customer_b.mon_w_bank), TenureGroups),
              "Mon W Bank: " \o i32_to_string(customer_a.mon_w_bank))
     , PushIf(is_similar(i32_to_string(customer_a.num_product_purchased),
                         i32_to_string(customer_b.num_product_purchased)),
              "Number of Products Purchased: "
                  \o i32_to_string(customer_a.num_product_purchased))
     , PushIf(is_similar(i32_to_string(customer_a.mon_inactive),
                         i32_to_string(customer_b.mon_inactive)),
              "Month inactive: " \o i32_to_string(customer_a.mon_inactive))
     , PushIf(is_similar(i32_to_string(customer_a.num_contact),
                         i32_to_string(customer_b.num_contact)),
              "Number of Contacts from Bank (past 12 months): "
                  \o i32_to_string(customer_a.num_contact))
     , PushIf(in_same_group(i32_to_string(customer_a.card_credit_limit),
                            i32_to_string(customer_b.card_credit_limit), LimitGroups),
              "Card's Credit Limit: " \o i32_to_string(customer_a.card_credit_limit))
     , PushIf(in_same_group(i32_to_string(customer_a.evolving_bal),
                            i32_to_string(customer_b.evolving_bal), BalanceGroups),
              "Evolving Balance on Card: " \o i32_to_string(customer_a.evolving_bal))
     , PushIf(in_same_group(i32_to_string(customer_a.transactions_amount),
                            i32_to_string(customer_b.transactions_amount), AmountGroups),
              "Total Dollar Amount of Transaction via Card: "
                  \o i32_to_string(customer_a.transactions_amount))
     , PushIf(in_same_group(i32_to_string(customer_a.num_transctions),
                            i32_to_string(customer_b.num_transctions), TxCountGroups),
              "Total Number of Transactions via Card: "
                  \o i32_to_string(customer_a.num_transctions))
     , PushIf(in_same_group(f64_to_string(customer_a.avg_card_utilize),
                            f64_to_string(customer_b.avg_card_utilize),
                            UtilizationGroups),
              "Average Card Utilization Ratio: "
                  \o f64_to_string(customer_a.avg_card_utilize)) >>

\* shared_characteristics after the first n pushes.
RECURSIVE PushedUpTo(_, _)
PushedUpTo(pushes, n) ==
    IF n = 0 THEN << >> ELSE PushedUpTo(pushes, n - 1) \o pushes[n]

\* Mutant: the age entry is pushed after the education entry.
get_shared_characteristics_reordered(customer_a, customer_b) ==
    LET p == shared_pushes(customer_a, customer_b)
        q == [ p EXCEPT ![1] = p[2], ![2] = p[1] ]
    IN  PushedUpTo(q, Len(q))

get_shared_characteristics(customer_a, customer_b) ==
    LET p == shared_pushes(customer_a, customer_b)
    IN  PushedUpTo(p, Len(p))

\* map_category: the closed vocabulary, "Unknown" for anything else.
map_category(value) ==
    IF value \in { "Unknown",
                   "High School", "Graduate", "Uneducated", "College",
                   "Post-Graduate", "Doctorate",
                   "Married", "Single", "Divorced",
                   "Less than $40K", "$40K - $60K", "$60K - $80K",
                   "$80K - $120K", "$120K +",
                   "Blue", "Silver", "Gold", "Platinum" }
    THEN value ELSE "Unknown"

-----------------------------------------------------------------------------
(* Direct calls of the similarity predicate on a pair of customers         *)

\* The customers the predicate is called on: every choice of the first two
\* columns for the eight exact-match attributes.
PairCustomers ==
    { MkCustomer(IF v[8] = 1 THEN "Existing Customer" ELSE "Attrited Customer",
                 Ages[v[1]], v) : v \in [1..8 -> 1..2] }

PipelineIdle ==
    /\ pc = "idle"
    /\ customers = << >>
    /\ graph = [ nodes |-> << >>, edges |-> << >> ]
    /\ not_churn_customers = << >>
    /\ churn_customers = << >>
    /\ churn_centrality = << >>
    /\ not_churn_centrality = << >>
    /\ churn_high_centrality_nodes = {}
    /\ not_churn_high_centrality_nodes = {}
    /\ churn_report = << >>
    /\ not_churn_report = << >>

PairIdle ==
    /\ arg_a = create_sample_customer1
    /\ arg_b = create_sample_customer1
    /\ called = "idle"
    /\ neighbor_ab = FALSE
    /\ neighbor_ba = FALSE
    /\ shared_ab = << >>
    /\ shared_aa = << >>

SelIdle ==
    /\ sel_centrality = << >>
    /\ sel_factor = << 0, 1 >>
    /\ sel_called = "idle"
    /\ sel_result = {}

AggIdle ==
    /\ agg_separated_counts = << >>
    /\ agg_called = "idle"
    /\ agg_report = << >>

InitPair ==
    /\ arg_a \in PairCustomers
    /\ arg_b \in PairCustomers
    /\ called = "none"
    /\ neighbor_ab = FALSE
    /\ neighbor_ba = FALSE
    /\ shared_ab = << >>
    /\ shared_aa = << >>
    /\ PipelineIdle
    /\ SelIdle
    /\ AggIdle

\* determine_neighbor called on (a, b) and on (b, a).
CallDetermineNeighbor ==
    /\ called = "none"
    /\ called' = "determine_neighbor"
    /\ neighbor_ab' = determine_neighbor(arg_a, arg_b)
    /\ neighbor_ba' = determine_neighbor(arg_b, arg_a)
    /\ UNCHANGED << arg_a, arg_b, shared_ab, shared_aa >>
    /\ UNCHANGED << pipelineVars, selVars, aggVars >>

\* get_shared_characteristics called on (a, b).
CallGetSharedCharacteristics ==
    /\ called = "none"
    /\ called' = "get_shared_characteristics"
    /\ shared_ab' = get_shared_characteristics(arg_a, arg_b)
    /\ UNCHANGED << arg_a, arg_b, neighbor_ab, neighbor_ba, shared_aa >>
    /\ UNCHANGED << pipelineVars, selVars, aggVars >>

\* get_shared_characteristics called on (a, a).
CallGetSharedWithSelf ==
    /\ called = "none"
    /\ called' = "get_shared_characteristics_self"
    /\ shared_aa' = get_shared_characteristics(arg_a, arg_a)
    /\ UNCHANGED << arg_a, arg_b, neighbor_ab, neighbor_ba, shared_ab >>
    /\ UNCHANGED << pipelineVars, selVars, aggVars >>

NextPair ==
    \/ CallDetermineNeighbor
    \/ CallGetSharedCharacteristics
    \/ CallGetSharedWithSelf

SpecPair == InitPair /\ [][NextPair]_vars

-----------------------------------------------------------------------------
(* Properties of the similarity predicate                                  *)

\* The twelve attributes the neighbor test checks, in the fixed order: the
\* category label of the entry, whether the attribute is bucketed, the raw
\* value, its string form, and (bucketed attributes) the bucket labels.
CheckedAttributes(c) ==
    << [ label |-> "Age", bucketed |-> FALSE,
         raw |-> c.age, text |-> i32_to_string(c.age), groups |-> << >> ],
       [ label |-> "Education Level", bucketed |-> FALSE,
         raw |-> c.one_hot_encoding.education_level,
         text |-> c.one_hot_encoding.education_level, groups |-> << >> ],
       [ label |-> "Marital Status", bucketed |-> FALSE,
         raw |-> c.one_hot_encoding.marital_status,
         text |-> c.one_hot_encoding.marital_status, groups |-> << >> ],
       [ label |-> "Income Range", bucketed |-> FALSE,
         raw |-> c.one_hot_encoding.income_range,
         text |-> c.one_hot_encoding.income_range, groups |-> << >> ],
       [ label |-> "Card Type", bucketed |-> FALSE,
         raw |-> c.one_hot_encoding.card_type,
         text |-> c.one_hot_encoding.card_type, groups |-> << >> ],
       [ label |-> "Mon W Bank", bucketed |-> TRUE,
         raw |-> c.mon_w_bank, text |-> i32_to_string(c.mon_w_bank),
         groups |-> TenureGroups ],
       [ label |-> "Number of Products Purchased", bucketed |-> FALSE,
         raw |-> c.num_product_purchased,
         text |-> i32_to_string(c.num_product_purchased), groups |-> << >> ],
       [ label |-> "Month inactive", bucketed |-> FALSE,
         raw |-> c.mon_inactive, text |-> i32_to_string(c.mon_inactive),
         groups |-> << >> ],
       [ label |-> "Number of Contacts from Bank (past 12 months)",
         bucketed |-> FALSE,
         raw |-> c.num_contact, text |-> i32_to_string(c.num_contact),
         groups |-> << >> ],
       [ label |-> "Total Dollar Amount of Transaction via Card",
         bucketed |-> TRUE,
         raw |-> c.transactions_amount,
         text |-> i32_to_string(c.transactions_amount),
         groups |-> AmountGroups ],
       [ label |-> "Total Number of Transactions via Card", bucketed |-> TRUE,
         raw |-> c.num_transctions, text |-> i32_to_string(c.num_transctions),
         groups |-> TxCountGroups ],
       [ label |-> "Average Card Utilization Ratio", bucketed |-> TRUE,
         raw |-> c.avg_card_utilize,
         text |-> f64_to_string(c.avg_card_utilize),
         groups |-> UtilizationGroups ] >>

AttributeCount == Len(CheckedAttributes(create_sample_customer1))

\* Attribute k is judged shared by a and b: an exact-match attribute when the
\* raw values are identical, a bucketed one when both string forms equal the
\* same bucket label.
JudgedShared(a, b, k) ==
    LET x == CheckedAttributes(a)[k]
        y == CheckedAttributes(b)[k]
    IN  IF x.bucketed
        THEN \E g \in { x.groups[m] : m \in 1..Len(x.groups) } :
                 x.text = g /\ y.text = g
        ELSE x.raw = y.raw

SharedAttributes(a, b) == { k \in 1..AttributeCount : JudgedShared(a, b, k) }

\* The entry "<category>: <value>" of attribute k of customer c.
TraitEntry(c, k) ==
    CheckedAttributes(c)[k].label \o ": " \o CheckedAttributes(c)[k].text

\* The entries of the shared attributes among the first n, in attribute order.
RECURSIVE SharedEntries(_, _, _)
SharedEntries(a, b, n) ==
    IF n = 0 THEN << >>
    ELSE SharedEntries(a, b, n - 1)
         \o (IF JudgedShared(a, b, n) THEN << TraitEntry(a, n) >> ELSE << >>)

\* C6: determine_neighbor is symmetric: determine_neighbor(a, b) equals
\* determine_neighbor(b, a) for all customer records a and b.
C6_NeighborSymmetric ==
    called = "determine_neighbor" => neighbor_ab = neighbor_ba

\* Two different customers that are neighbors in both orders, where a's
\* product count equals b's inactivity months but not the other way round.
C6_Witness ==
    /\ called = "determine_neighbor"
    /\ arg_a # arg_b
    /\ neighbor_ab
    /\ neighbor_ba
    /\ arg_a.num_product_purchased = arg_b.mon_inactive
    /\ arg_b.num_product_purchased # arg_a.mon_inactive

\* C7: get_shared_characteristics(a, a) returns all 12 possible trait
\* entries, one for each checked attribute of a.
C7_SelfSharesAllTwelve ==
    called = "get_shared_characteristics_self" =>
        \A k \in 1..AttributeCount :
            \E m \in 1..Len(shared_aa) : shared_aa[m] = TraitEntry(arg_a, k)

\* C8: determine_neighbor(a, b) is true if and only if at least 2 of the 12
\* checked attributes are judged shared.
C8_NeighborIffTwoShared ==
    called = "determine_neighbor" =>
        (neighbor_ab <=> Cardinality(SharedAttributes(arg_a, arg_b)) >= 2)

\* The sample customers of the tests: they share exactly education, marital
\* status, income range and card type, and are neighbors.
C8_Witness ==
    /\ called = "determine_neighbor"
    /\ arg_a = create_sample_customer1
    /\ arg_b = create_sample_customer2
    /\ SharedAttributes(arg_a, arg_b) = { 2, 3, 4, 5 }
    /\ neighbor_ab

\* C9: get_shared_characteristics(a, b) returns exactly one entry
\* "<category>: <a's value>" for each attribute judged shared and no other
\* entry, in the fixed attribute order.
C9_SharedEntriesInOrder ==
    called = "get_shared_characteristics" =>
        shared_ab = SharedEntries(arg_a, arg_b, AttributeCount)

\* The sample customers of the tests: exactly the four categorical entries.
C9_Witness ==
    /\ called = "get_shared_characteristics"
    /\ arg_a = create_sample_customer1
    /\ arg_b = create_sample_customer2
    /\ shared_ab = << "Education Level: Graduate", "Marital Status: Single",
                      "Income Range: $40K - $60K", "Card Type: Silver" >>

-----------------------------------------------------------------------------
(* f64 arithmetic                                                          *)
(*                                                                         *)
(* A value is a fraction num/den in lowest terms with den >= 0: den > 0 is *)
(* a finite number, 1/0 and -1/0 are the infinities, 0/0 is NaN.  Rounding *)
(* and the sign of zero are not represented.                               *)

Abs(n) == IF n < 0 THEN 0 - n ELSE n

Sign(n) == IF n < 0 THEN 0 - 1 ELSE IF n > 0 THEN 1 ELSE 0

RECURSIVE Gcd(_, _)
Gcd(m, n) == IF n = 0 THEN m ELSE Gcd(n, m % n)

F(n, d) ==
    IF d = 0 THEN [ num |-> Sign(n), den |-> 0 ]
    ELSE LET g == Gcd(Abs(n), Abs(d))
         IN  [ num |-> (n * Sign(d)) \div g, den |-> Abs(d) \div g ]

FInfinity == [ num |-> 1, den |-> 0 ]          \* f64::INFINITY
FNaN      == [ num |-> 0, den |-> 0 ]
FFromInt(n) == [ num |-> n, den |-> 1 ]         \* n as f64

FIsNaN(x)    == x.den = 0 /\ x.num = 0
FIsFinite(x) == x.den > 0

FAdd(x, y) ==
    IF x.den = 0 /\ y.den = 0
    THEN (IF x.num = y.num THEN x ELSE FNaN)
    ELSE F(x.num * y.den + y.num * x.den, x.den * y.den)

FMul(x, y) == F(x.num * y.num, x.den * y.den)

FDiv(x, y) ==
    IF y.num < 0 THEN F((0 - x.num) * y.den, x.den * (0 - y.num))
    ELSE F(x.num * y.den, x.den * y.num)

\* x > y; false when either is NaN.
FGt(x, y) ==
    IF FIsNaN(x) \/ FIsNaN(y) THEN FALSE
    ELSE IF x.den = 0 \/ y.den = 0
         THEN (IF x.den = 0 /\ y.den = 0 THEN x.num > y.num
               ELSE IF x.den = 0 THEN x.num > 0
               ELSE y.num < 0)
         ELSE x.num * y.den > y.num * x.den

\* Iterator::sum over the values of a map (the values are added exactly, so
\* the iteration order of the HashMap does not show).
RECURSIVE FSumOver(_, _)
FSumOver(map, keys) ==
    IF keys = {} THEN FFromInt(0)
    ELSE LET k == CHOOSE k \in keys : TRUE
         IN  FAdd(map[k], FSumOver(map, keys \ { k }))

FSum(map) == FSumOver(map, DOMAIN map)

-----------------------------------------------------------------------------
(* petgraph::Graph<&Customer, (), Undirected>                              *)
(*                                                                         *)
(* nodes[k + 1] is the weight of NodeIndex k: a reference into the slice   *)
(* the graph was built from, held as the 0-based position it points at.    *)
(* edges is the edge list in insertion order; Graph keeps parallel edges.  *)

new_undirected == [ nodes |-> << >>, edges |-> << >> ]

add_node(g, weight) == [ g EXCEPT !.nodes = Append(g.nodes, weight) ]

add_edge(g, a, b) == [ g EXCEPT !.edges = Append(g.edges, << a, b >>) ]

node_weight(g, a) == g.nodes[a + 1]

node_count(g) == Len(g.nodes)

\* Graph::neighbors of an undirected graph: one item per incident edge.
NeighborSet(g, a) ==
    { g.edges[e][2] : e \in { e \in 1..Len(g.edges) : g.edges[e][1] = a } }
    \cup
    { g.edges[e][1] : e \in { e \in 1..Len(g.edges) : g.edges[e][2] = a } }

\* The slice element a 0-based index denotes.
At(slice, index) == slice[index + 1]

\* Mutant: the i != j test is missing.
edge_condition_with_self(g, cs, i, j) ==
    determine_neighbor(At(cs, node_weight(g, i)), At(cs, node_weight(g, j)))

\* The condition of construct_graph's inner loop.
edge_condition(g, cs, i, j) ==
    /\ i # j
    /\ determine_neighbor(At(cs, node_weight(g, i)), At(cs, node_weight(g, j)))

\* graph after add_node for the first n customers.
RECURSIVE add_nodes(_, _)
add_nodes(g, n) ==
    IF n = 0 THEN g ELSE add_node(add_nodes(g, n - 1), n - 1)

\* The two nested loops of construct_graph from iteration (i, j) on.
RECURSIVE edge_loops(_, _, _, _)
edge_loops(g, cs, i, j) ==
    IF i = node_count(g) THEN g
    ELSE IF j = node_count(g) THEN edge_loops(g, cs, i + 1, 0)
    ELSE edge_loops(IF edge_condition(g, cs, i, j) THEN add_edge(g, i, j) ELSE g,
                    cs, i, j + 1)

construct_graph(cs) ==
    edge_loops(add_nodes(new_undirected, Len(cs)), cs, 0, 0)

-----------------------------------------------------------------------------
(* Centrality                                                              *)

\* petgraph::algo::dijkstra(graph, start, Some(goal), |_| 1.0), read at goal:
\* with unit costs the search settles the nodes level by level; the result is
\* the level of goal, or -1 when the search ends without scoring goal.
RECURSIVE dijkstra_levels(_, _, _, _, _)
dijkstra_levels(g, frontier, visited, level, goal) ==
    IF goal \in frontier THEN level
    ELSE IF frontier = {} THEN 0 - 1
    ELSE LET seen == visited \cup frontier
             next == UNION { NeighborSet(g, x) : x \in frontier } \ seen
         IN  dijkstra_levels(g, next, seen, level + 1, goal)

dijkstra(g, start, goal) == dijkstra_levels(g, { start }, {}, 0, goal)

\* *distance_map.get(&nodew).unwrap_or(&f64::INFINITY)
distance_or_infinity(g, node, nodew) ==
    LET d == dijkstra(g, node, nodew)
    IN  IF d < 0 THEN FInfinity ELSE FFromInt(d)

\* all_distances after the outer loop has handled the first k of n nodes: a
\* distance already stored for (nodew, node) is reused for (node, nodew).
RECURSIVE all_distances(_, _, _)
all_distances(g, n, k) ==
    IF k = 0 THEN << >>
    ELSE LET prev == all_distances(g, n, k - 1)
             node == k - 1
             distances ==
                 [ nodew \in (0..(n - 1)) \ { node } |->
                     IF nodew \in DOMAIN prev /\ node \in DOMAIN prev[nodew]
                     THEN prev[nodew][node]
                     ELSE distance_or_infinity(g, node, nodew) ]
         IN  [ x \in (DOMAIN prev) \cup { node } |->
                 IF x = node THEN distances ELSE prev[x] ]

\* Mutant: the numerator is the number of customers instead of one less.
calculate_centrality_len(g, cs) ==
    LET n   == Len(cs)
        all == all_distances(g, n, n)
    IN  [ node \in 0..(n - 1) |-> FDiv(FFromInt(n), FSum(all[node])) ]

calculate_centrality(g, cs) ==
    LET n   == Len(cs)
        all == all_distances(g, n, n)
    IN  [ node \in 0..(n - 1) |-> FDiv(FFromInt(n - 1), FSum(all[node])) ]

\* The unwinding of a panic (an integer division by zero), which f64
\* arithmetic never starts.
DivisionPanic == [ panic |-> TRUE ]

\* Mutant: the mean is an integer division, which panics on an empty map.
threshold_integer_division(centrality, threshold_factor) ==
    IF Cardinality(DOMAIN centrality) = 0 THEN DivisionPanic
    ELSE FDiv(FMul(threshold_factor, FSum(centrality)),
              FFromInt(Cardinality(DOMAIN centrality)))

\* threshold_factor * sum of the values / len as f64: a float division, so
\* an empty map gives 0/0 = NaN.
threshold(centrality, threshold_factor) ==
    FDiv(FMul(threshold_factor, FSum(centrality)),
         FFromInt(Cardinality(DOMAIN centrality)))

\* Mutant: a node at the threshold is returned too.
identify_high_centrality_nodes_inclusive(centrality, threshold_factor) ==
    { node \in DOMAIN centrality :
        ~ FGt(threshold(centrality, threshold_factor), centrality[node]) }

\* The nodes returned (a Vec in the iteration order of the HashMap, which is
\* not fixed: only its elements are kept).
identify_high_centrality_nodes(centrality, threshold_factor) ==
    { node \in DOMAIN centrality :
        FGt(centrality[node], threshold(centrality, threshold_factor)) }

-----------------------------------------------------------------------------
(* find_top_shared_characteristics (customer.rs)                           *)

\* The outgoing edge list of node a from edge e down: petgraph links every
\* new edge at the head of its source's list, so the latest edge comes first.
RECURSIVE outgoing_targets(_, _, _)
outgoing_targets(g, a, e) ==
    IF e = 0 THEN << >>
    ELSE (IF g.edges[e][1] = a THEN << g.edges[e][2] >> ELSE << >>)
         \o outgoing_targets(g, a, e - 1)

\* The incoming edge list of node a from edge e down, self loops skipped.
RECURSIVE incoming_sources(_, _, _)
incoming_sources(g, a, e) ==
    IF e = 0 THEN << >>
    ELSE (IF g.edges[e][2] = a /\ g.edges[e][1] # a
          THEN << g.edges[e][1] >> ELSE << >>)
         \o incoming_sources(g, a, e - 1)

\* Graph::neighbors of an undirected graph, in iteration order: the targets
\* of the outgoing edges, then the sources of the incoming ones; a neighbor
\* joined by several edges is yielded once per edge.
neighbors(g, a) ==
    outgoing_targets(g, a, Len(g.edges)) \o incoming_sources(g, a, Len(g.edges))

\* The characteristics the neighbor loop of find_top_shared_characteristics
\* counts, in the order it meets them, from position k of the neighbor list.
RECURSIVE counted_characteristics(_, _, _, _)
counted_characteristics(nbrs, node_index, cs, k) ==
    IF k > Len(nbrs) THEN << >>
    ELSE (IF nbrs[k] < Len(cs)
          THEN get_shared_characteristics(At(cs, node_index), At(cs, nbrs[k]))
          ELSE << >>)
         \o counted_characteristics(nbrs, node_index, cs, k + 1)

Range(seq) == { seq[i] : i \in DOMAIN seq }

\* *characteristic_counts.entry(characteristic).or_insert(0) += 1 for every
\* characteristic of met.
incremented_counts(met) ==
    [ characteristic \in Range(met) |->
          Cardinality({ i \in DOMAIN met : met[i] = characteristic }) ]

\* characteristic_counts after the neighbor loop: one increment per
\* characteristic met.
characteristic_counts(g, node_index, cs) ==
    incremented_counts(counted_characteristics(neighbors(g, node_index),
                                               node_index, cs, 1))

\* How many entries find_top_shared_characteristics keeps.
TopTaken == 4

Min(m, n) == IF m < n THEN m ELSE n

\* sort_by(|(_, count1), (_, count2)| count2.cmp(count1)) has left vec in
\* descending order of count.
sorted_by_count_descending(vec) ==
    \A i \in 1..(Len(vec) - 1) : vec[i][2] >= vec[i + 1][2]

\* The vectors that collecting counts, sorting and taking can give.  The
\* entries of the HashMap are collected in its iteration order, which is not
\* fixed, and the stable sort keeps that order among entries of equal count:
\* every descending order of the entries is a possible sorted vector, and the
\* first TopTaken entries of it are returned.
sorted_characteristics_taken(counts) ==
    LET entries == { << c, counts[c] >> : c \in DOMAIN counts }
        taken   == Min(TopTaken, Cardinality(entries))
    IN  { top \in [1..taken -> entries] :
            /\ \A i, j \in 1..taken : i # j => top[i] # top[j]
            /\ sorted_by_count_descending(top)
            /\ \A entry \in entries \ Range(top) :
                   entry[2] <= top[taken][2] }

\* The vectors find_top_shared_characteristics can return.
find_top_shared_characteristics(g, node_index, cs) ==
    sorted_characteristics_taken(characteristic_counts(g, node_index, cs))

-----------------------------------------------------------------------------
(* print_top_shared_characteristics (customer.rs)                          *)

\* The position of the first ':' of s at or after i, 0 when there is none.
RECURSIVE find_colon(_, _)
find_colon(s, i) ==
    IF i > Len(s) THEN 0
    ELSE IF SubSeq(s, i, i) = ":" THEN i
    ELSE find_colon(s, i + 1)

\* characteristic.splitn(2, ":"): the text before the first ':' and the whole
\* rest after it, or the text alone when it has no ':'.
splitn_2(s) ==
    LET k == find_colon(s, 1)
    IN  IF k = 0 THEN << s >>
        ELSE << SubSeq(s, 1, k - 1), SubSeq(s, k + 1, Len(s)) >>

RECURSIVE trim_start(_)
trim_start(s) ==
    IF Len(s) > 0 /\ SubSeq(s, 1, 1) = " " THEN trim_start(SubSeq(s, 2, Len(s)))
    ELSE s

RECURSIVE trim_end(_)
trim_end(s) ==
    IF Len(s) > 0 /\ SubSeq(s, Len(s), Len(s)) = " "
    THEN trim_end(SubSeq(s, 1, Len(s) - 1))
    ELSE s

\* str::trim, for the one whitespace character the entries contain.
trim(s) == trim_end(trim_start(s))

\* Iterator::sum over the counts of the first k entries of a vector of
\* (name, count) pairs.
RECURSIVE count_sum(_, _)
count_sum(vec, k) ==
    IF k = 0 THEN 0 ELSE vec[k][2] + count_sum(vec, k - 1)

\* Iterator::sum over the values at keys of a map of counts.
RECURSIVE values_sum(_, _)
values_sum(map, keys) ==
    IF keys = {} THEN 0
    ELSE LET k == CHOOSE k \in keys : TRUE
         IN  map[k] + values_sum(map, keys \ { k })

\* Mutant: the scaled value is truncated.
round_truncating(x) ==
    IF x.den = 0 THEN x
    ELSE F(Sign(x.num) * (Abs(x.num) \div x.den), 1)

\* f64::round: the nearest integer, a half away from zero.
round(x) ==
    IF x.den = 0 THEN x
    ELSE F(Sign(x.num) * ((2 * Abs(x.num) + x.den) \div (2 * x.den)), 1)

\* (count as f64 / total as f64) * 100.00
percentage_of(count, total) ==
    FMul(FDiv(FFromInt(count), FFromInt(total)), FFromInt(100))

\* (percentage * 10.0).round() / 10.0
rounded_to_tenth(percentage) ==
    FDiv(round(FMul(percentage, FFromInt(10))), FFromInt(10))

\* total_sum: the sum of every count of every category.
total_sum_of(separated_counts) ==
    LET totals == [ key \in DOMAIN separated_counts |->
                        values_sum(separated_counts[key],
                                   DOMAIN separated_counts[key]) ]
    IN  values_sum(totals, DOMAIN totals)

\* What the report loop prints for every category and every characteristic
\* of it: the count and the rounded percentage.  The lines come in the
\* iteration order of the two HashMaps, which is not fixed, so the report is
\* kept by category and characteristic.
report_of(separated_counts) ==
    LET total_sum == total_sum_of(separated_counts)
    IN  [ key \in DOMAIN separated_counts |->
            LET entry_counts == separated_counts[key]
                total_count  == values_sum(entry_counts, DOMAIN entry_counts)
            IN  [ total_count |-> total_count,
                  rounded_key_percentage |->
                      rounded_to_tenth(percentage_of(total_count, total_sum)),
                  entries |->
                      [ entry \in DOMAIN entry_counts |->
                          [ count |-> entry_counts[entry],
                            rounded_percentage |->
                                rounded_to_tenth(
                                    percentage_of(entry_counts[entry],
                                                  total_count)) ] ] ] ]

\* The (characteristic, count) pairs the node loop walks through: the vector
\* returned for every node in range, one node after the other (a node whose
\* vector is empty is skipped and adds nothing).
RECURSIVE merged_entries(_, _)
merged_entries(nodes, shared) ==
    IF nodes = {} THEN << >>
    ELSE LET node_index == CHOOSE n \in nodes : TRUE
         IN  shared[node_index] \o merged_entries(nodes \ { node_index }, shared)

\* total_characteristic_counts and separated_counts after the node loop over
\* the merged entries.
total_characteristic_counts_of(merged) ==
    [ characteristic \in { merged[i][1] : i \in DOMAIN merged } |->
        LET Same(entry) == entry[1] = characteristic
        IN  count_sum(SelectSeq(merged, Same),
                      Len(SelectSeq(merged, Same))) ]

has_two_parts(entry) == Len(splitn_2(entry[1])) = 2

key_of(entry) == trim(splitn_2(entry[1])[1])

value_of(entry) == trim(splitn_2(entry[1])[2])

separated_counts_of(merged) ==
    LET split == SelectSeq(merged, has_two_parts)
    IN  [ key \in { key_of(split[i]) : i \in DOMAIN split } |->
            [ value \in { value_of(split[i]) :
                            i \in { i \in DOMAIN split :
                                      key_of(split[i]) = key } } |->
                LET Same(entry) ==
                        key_of(entry) = key /\ value_of(entry) = value
                IN  count_sum(SelectSeq(split, Same),
                              Len(SelectSeq(split, Same))) ] ]

\* The nodes of high_centrality_nodes that pass the bounds check.
nodes_in_range(high_centrality_nodes, cs) ==
    { node_index \in high_centrality_nodes : node_index < Len(cs) }

\* What a call has done when it returns: its result, the lines printed
\* (the "Invalid node index" lines are kept as the set invalid, the report
\* lines in report), the nodes find_top_shared_characteristics was called
\* for with what it returned, and the maps.  The early return creates no
\* map and adds up no total.
EarlyReturn ==
    [ result |-> "Ok",
      printed |-> << "No high centrality nodes." >>,
      invalid |-> {},
      shared_characteristics |-> << >>,
      total_characteristic_counts |-> << >>,
      separated_counts |-> << >>,
      total_sum |-> 0,
      report |-> << >> ]

FullReport(high_centrality_nodes, cs, shared) ==
    LET merged == merged_entries(nodes_in_range(high_centrality_nodes, cs),
                                 shared)
        separated_counts == separated_counts_of(merged)
    IN  [ result |-> "Ok",
          printed |->
              << "Prevalent characteristic categories and their compositions:",
                 "" >>,
          invalid |-> high_centrality_nodes
                          \ nodes_in_range(high_centrality_nodes, cs),
          shared_characteristics |-> shared,
          total_characteristic_counts |->
              total_characteristic_counts_of(merged),
          separated_counts |-> separated_counts,
          total_sum |-> total_sum_of(separated_counts),
          report |-> report_of(separated_counts) ]

\* Mutant: the is_empty guard is missing.
print_top_shared_characteristics_unguarded(high_centrality_nodes, cs, shared) ==
    FullReport(high_centrality_nodes, cs, shared)

\* print_top_shared_characteristics(high_centrality_nodes, customers, graph),
\* shared being what find_top_shared_characteristics returned for every node
\* in range.
print_top_shared_characteristics(high_centrality_nodes, cs, shared) ==
    IF high_centrality_nodes = {} THEN EarlyReturn
    ELSE FullReport(high_centrality_nodes, cs, shared)

\* One of the vectors of tops for every node.
one_of_each(tops) ==
    { shared \in [ DOMAIN tops -> UNION { tops[n] : n \in DOMAIN tops } ] :
        \A n \in DOMAIN tops : shared[n] \in tops[n] }

\* The possible returns of find_top_shared_characteristics for every node of
\* high_centrality_nodes that is in range.
top_shared_of(high_centrality_nodes, cs, g) ==
    one_of_each([ node_index \in nodes_in_range(high_centrality_nodes, cs) |->
                      find_top_shared_characteristics(g, node_index, cs) ])

-----------------------------------------------------------------------------
(* main()                                                                  *)

\* The Customer main() builds from one input record: the churn status and
\* the age are both read from field 1 (the age falls back to 2 when the field
\* is no number); v stands for the other fields of the record.
ReadCustomer(field1, v) == MkCustomer(field1, parse_i32(field1, 2), v)

\* The records of the input: three customers in a chain (the first and the
\* second share the education level, the second and the third everything but
\* it), one that shares nothing with them, each with either churn label, and
\* one record whose field 1 is a number.
InputRecords ==
    { ReadCustomer(status, v) :
          status \in { "Existing Customer", "Attrited Customer" },
          v \in { << 1, 1, 1, 1, 1, 1, 1, 1 >>, << 1, 1, 2, 2, 2, 2, 2, 2 >>,
                  << 2, 2, 2, 2, 2, 2, 2, 2 >>, << 3, 3, 3, 3, 3, 3, 3, 3 >> } }
    \cup { ReadCustomer("45", << 1, 3, 3, 3, 3, 3, 3, 3 >>) }

\* The longest input list.
MaxCustomers == 3

InputLists == UNION { [1..n -> InputRecords] : n \in 0..MaxCustomers }

Init ==
    /\ pc = "construct_graph"
    /\ customers \in InputLists
    /\ graph = new_undirected
    /\ not_churn_customers = << >>
    /\ churn_customers = << >>
    /\ churn_centrality = << >>
    /\ not_churn_centrality = << >>
    /\ churn_high_centrality_nodes = {}
    /\ not_churn_high_centrality_nodes = {}
    /\ churn_report = << >>
    /\ not_churn_report = << >>
    /\ PairIdle
    /\ SelIdle
    /\ AggIdle

\* let graph = construct_graph(&customers);
ConstructGraph ==
    /\ pc = "construct_graph"
    /\ graph' = construct_graph(customers)
    /\ pc' = "partition"
    /\ UNCHANGED << customers, not_churn_customers, churn_customers,
                    churn_centrality, not_churn_centrality,
                    churn_high_centrality_nodes,
                    not_churn_high_centrality_nodes >>
    /\ UNCHANGED << churn_report, not_churn_report >>
    /\ UNCHANGED << pairVars, selVars, aggVars >>

IsExisting(customer) == customer.churn_status = "Existing Customer"

IsNotExisting(customer) == ~ IsExisting(customer)

\* customers.iter().cloned().partition(..): both halves keep the input order.
Partition ==
    /\ pc = "partition"
    /\ not_churn_customers' = SelectSeq(customers, IsExisting)
    /\ churn_customers' = SelectSeq(customers, IsNotExisting)
    /\ pc' = "churn_centrality"
    /\ UNCHANGED << customers, graph, churn_centrality, not_churn_centrality,
                    churn_high_centrality_nodes,
                    not_churn_high_centrality_nodes >>
    /\ UNCHANGED << churn_report, not_churn_report >>
    /\ UNCHANGED << pairVars, selVars, aggVars >>

\* let churn_centrality = calculate_centrality(&graph, &churn_customers);
ChurnCentrality ==
    /\ pc = "churn_centrality"
    /\ churn_centrality' = calculate_centrality(graph, churn_customers)
    /\ pc' = "not_churn_centrality"
    /\ UNCHANGED << customers, graph, not_churn_customers, churn_customers,
                    not_churn_centrality, churn_high_centrality_nodes,
                    not_churn_high_centrality_nodes >>
    /\ UNCHANGED << churn_report, not_churn_report >>
    /\ UNCHANGED << pairVars, selVars, aggVars >>

\* let not_churn_centrality = calculate_centrality(&graph, &not_churn_customers);
NotChurnCentrality ==
    /\ pc = "not_churn_centrality"
    /\ not_churn_centrality' = calculate_centrality(graph, not_churn_customers)
    /\ pc' = "churn_high"
    /\ UNCHANGED << customers, graph, not_churn_customers, churn_customers,
                    churn_centrality, churn_high_centrality_nodes,
                    not_churn_high_centrality_nodes >>
    /\ UNCHANGED << churn_report, not_churn_report >>
    /\ UNCHANGED << pairVars, selVars, aggVars >>

\* The threshold factor main() passes: 1.1.
MainThresholdFactor == F(11, 10)

\* identify_high_centrality_nodes(&churn_centrality, 1.1)
ChurnHighCentrality ==
    /\ pc = "churn_high"
    /\ churn_high_centrality_nodes' =
           identify_high_centrality_nodes(churn_centrality, MainThresholdFactor)
    /\ pc' = "not_churn_high"
    /\ UNCHANGED << customers, graph, not_churn_customers, churn_customers,
                    churn_centrality, not_churn_centrality,
                    not_churn_high_centrality_nodes >>
    /\ UNCHANGED << churn_report, not_churn_report >>
    /\ UNCHANGED << pairVars, selVars, aggVars >>

\* identify_high_centrality_nodes(&not_churn_centrality, 1.1)
NotChurnHighCentrality ==
    /\ pc = "not_churn_high"
    /\ not_churn_high_centrality_nodes' =
           identify_high_centrality_nodes(not_churn_centrality,
                                          MainThresholdFactor)
    /\ pc' = "report"
    /\ UNCHANGED << customers, graph, not_churn_customers, churn_customers,
                    churn_centrality, not_churn_centrality,
                    churn_high_centrality_nodes >>
    /\ UNCHANGED << churn_report, not_churn_report >>
    /\ UNCHANGED << pairVars, selVars, aggVars >>

\* print_top_shared_characteristics(&churn_high_centrality_nodes,
\*                                  &churn_customers, &graph);
ChurnReport ==
    /\ pc = "report"
    /\ \E shared \in top_shared_of(churn_high_centrality_nodes,
                                   churn_customers, graph) :
           churn_report' =
               print_top_shared_characteristics(churn_high_centrality_nodes,
                                                churn_customers, shared)
    /\ pc' = "not_churn_report"
    /\ UNCHANGED << customers, graph, not_churn_customers, churn_customers,
                    churn_centrality, not_churn_centrality,
                    churn_high_centrality_nodes,
                    not_churn_high_centrality_nodes, not_churn_report >>
    /\ UNCHANGED << pairVars, selVars, aggVars >>

\* print_top_shared_characteristics(&not_churn_high_centrality_nodes,
\*                                  &not_churn_customers, &graph);
NotChurnReport ==
    /\ pc = "not_churn_report"
    /\ \E shared \in top_shared_of(not_churn_high_centrality_nodes,
                                   not_churn_customers, graph) :
           not_churn_report' =
               print_top_shared_characteristics(not_churn_high_centrality_nodes,
                                                not_churn_customers, shared)
    /\ pc' = "done"
    /\ UNCHANGED << customers, graph, not_churn_customers, churn_customers,
                    churn_centrality, not_churn_centrality,
                    churn_high_centrality_nodes,
                    not_churn_high_centrality_nodes, churn_report >>
    /\ UNCHANGED << pairVars, selVars, aggVars >>

Next ==
    \/ ConstructGraph
    \/ Partition
    \/ ChurnCentrality
    \/ NotChurnCentrality
    \/ ChurnHighCentrality
    \/ NotChurnHighCentrality

Spec == Init /\ [][Next]_vars

\* The records of the inputs whose reports are followed: three customers in
\* a chain, the first and the second sharing the education level, the second
\* and the third the marital status, the income range and the card type,
\* each with either churn label (field 1 is the label, so every age is 2).
ReportRecords ==
    { ReadCustomer(status, v) :
          status \in { "Existing Customer", "Attrited Customer" },
          v \in { << 1, 1, 1, 1, 1, 1, 1, 1 >>, << 1, 1, 2, 2, 2, 2, 2, 2 >>,
                  << 1, 2, 2, 2, 2, 3, 3, 3 >> } }

ReportLists == UNION { [1..n -> ReportRecords] : n \in 0..MaxCustomers }

\* main() at its first call of print_top_shared_characteristics, everything
\* before it computed from the records read.
InitAgg ==
    /\ pc = "report"
    /\ customers \in ReportLists
    /\ graph = construct_graph(customers)
    /\ not_churn_customers = SelectSeq(customers, IsExisting)
    /\ churn_customers = SelectSeq(customers, IsNotExisting)
    /\ churn_centrality = calculate_centrality(graph, churn_customers)
    /\ not_churn_centrality = calculate_centrality(graph, not_churn_customers)
    /\ churn_high_centrality_nodes =
           identify_high_centrality_nodes(churn_centrality, MainThresholdFactor)
    /\ not_churn_high_centrality_nodes =
           identify_high_centrality_nodes(not_churn_centrality,
                                          MainThresholdFactor)
    /\ churn_report = << >>
    /\ not_churn_report = << >>
    /\ PairIdle
    /\ SelIdle
    /\ AggIdle

NextAgg ==
    \/ ChurnReport
    \/ NotChurnReport

SpecAgg == InitAgg /\ [][NextAgg]_vars

-----------------------------------------------------------------------------
(* Properties of the graph builder                                         *)

GraphBuilt == pc \notin { "idle", "construct_graph" }

NodeIndices(g) == 0..(node_count(g) - 1)

\* The number of edges of g that join x and y, in either direction.
EdgesBetween(g, x, y) ==
    Cardinality({ e \in 1..Len(g.edges) :
                    g.edges[e] = << x, y >> \/ g.edges[e] = << y, x >> })

\* C1: construct_graph returns a graph with exactly N nodes where node i
\* wraps record i, no node has an edge to itself, and for all i # j an edge
\* between i and j exists if and only if determine_neighbor(record_i,
\* record_j) is true.
C1_GraphMatchesPredicate ==
    GraphBuilt =>
        /\ node_count(graph) = Len(customers)
        /\ \A i \in NodeIndices(graph) : node_weight(graph, i) = i
        /\ \A e \in 1..Len(graph.edges) :
               /\ graph.edges[e][1] \in NodeIndices(graph)
               /\ graph.edges[e][2] \in NodeIndices(graph)
               /\ graph.edges[e][1] # graph.edges[e][2]
        /\ \A i, j \in NodeIndices(graph) :
               i # j =>
                   (EdgesBetween(graph, i, j) > 0
                      <=> determine_neighbor(At(customers, i), At(customers, j)))

\* Three customers, the first two joined and the first and third not.
C1_Witness ==
    /\ GraphBuilt
    /\ Len(customers) = 3
    /\ EdgesBetween(graph, 0, 1) > 0
    /\ EdgesBetween(graph, 0, 2) = 0
    /\ determine_neighbor(At(customers, 0), At(customers, 0))

\* C2: each unordered pair {i, j} is connected by at most one edge, so the
\* total edge count is at most N(N-1)/2.
C2_NoParallelEdges ==
    GraphBuilt =>
        /\ \A i, j \in NodeIndices(graph) : EdgesBetween(graph, i, j) <= 1
        /\ 2 * Len(graph.edges) <= Len(customers) * (Len(customers) - 1)

-----------------------------------------------------------------------------
(* Properties of the centrality engine                                     *)

ChurnCentralityDone ==
    pc \notin { "idle", "construct_graph", "partition", "churn_centrality" }

NotChurnCentralityDone ==
    pc \notin { "idle", "construct_graph", "partition", "churn_centrality",
                "not_churn_centrality" }

\* C3: every node index that the centrality engine uses for the k-th
\* customer of a churn partition denotes the graph node that wraps that same
\* customer record.
C3_PartitionIndexDenotesCustomer ==
    /\ ChurnCentralityDone =>
           \A k \in DOMAIN churn_centrality :
               At(customers, node_weight(graph, k)) = At(churn_customers, k)
    /\ NotChurnCentralityDone =>
           \A k \in DOMAIN not_churn_centrality :
               At(customers, node_weight(graph, k)) = At(not_churn_customers, k)

\* There is a walk of d edges from s to t.
HasWalk(g, s, t, d) ==
    \E p \in [0..d -> NodeIndices(g)] :
        /\ p[0] = s
        /\ p[d] = t
        /\ \A m \in 0..(d - 1) : EdgesBetween(g, p[m], p[m + 1]) > 0

Reachable(g, s, t) == \E d \in 1..node_count(g) : HasWalk(g, s, t, d)

\* The unit-weight shortest-path distance between two distinct nodes, one of
\* which can reach the other.
ShortestPath(g, s, t) ==
    CHOOSE d \in 1..node_count(g) :
        /\ HasWalk(g, s, t, d)
        /\ \A c \in 1..(d - 1) : ~ HasWalk(g, s, t, c)

RECURSIVE SumOfShortestPaths(_, _, _)
SumOfShortestPaths(g, s, others) ==
    IF others = {} THEN 0
    ELSE LET t == CHOOSE t \in others : TRUE
         IN  ShortestPath(g, s, t) + SumOfShortestPaths(g, s, others \ { t })

\* The centrality map of a subset of n >= 2 members (the nodes 0..n-1) is
\* (n - 1) / (sum of shortest-path distances to the other members), and 0
\* for a node that cannot reach some other member.
ClosenessOf(g, n, centrality) ==
    n >= 2 =>
        /\ DOMAIN centrality = 0..(n - 1)
        /\ \A k \in 0..(n - 1) :
               LET others == (0..(n - 1)) \ { k }
               IN  IF \E w \in others : ~ Reachable(g, k, w)
                   THEN centrality[k].num = 0 /\ centrality[k].den > 0
                   ELSE /\ centrality[k].den > 0
                        /\ centrality[k].num * SumOfShortestPaths(g, k, others)
                               = (n - 1) * centrality[k].den

\* C4: for every node of a subset with at least two members,
\* calculate_centrality returns (|subset| - 1) divided by the sum of the
\* unit-weight shortest-path distances to every other subset member, and 0
\* when some other member is unreachable.
C4_ClosenessCentrality ==
    /\ ChurnCentralityDone =>
           ClosenessOf(graph, Len(churn_customers), churn_centrality)
    /\ NotChurnCentralityDone =>
           ClosenessOf(graph, Len(not_churn_customers), not_churn_centrality)

\* Two members whose shortest path has two edges and runs through a node
\* outside the subset: both have centrality 1/2.
C4_Witness ==
    /\ NotChurnCentralityDone
    /\ Len(not_churn_customers) = 2
    /\ Len(customers) = 3
    /\ EdgesBetween(graph, 0, 1) = 0
    /\ Reachable(graph, 0, 1)
    /\ ShortestPath(graph, 0, 1) = 2
    /\ not_churn_centrality[0] = F(1, 2)
    /\ not_churn_centrality[1] = F(1, 2)

\* C5: every centrality value returned by calculate_centrality is a finite
\* non-negative number and never NaN, for a subset with one member too.
C5_CentralityFiniteNonNegative ==
    /\ ChurnCentralityDone =>
           \A k \in DOMAIN churn_centrality :
               FIsFinite(churn_centrality[k]) /\ churn_centrality[k].num >= 0
    /\ NotChurnCentralityDone =>
           \A k \in DOMAIN not_churn_centrality :
               /\ FIsFinite(not_churn_centrality[k])
               /\ not_churn_centrality[k].num >= 0

-----------------------------------------------------------------------------
(* Direct calls of the selector                                            *)

\* The most nodes of a centrality map passed to the selector.
MaxMapNodes == 3

\* The centrality values: 0, 1/2, 2/3, 1 and the NaN that
\* calculate_centrality returns for a subset of one.
MapValues == { F(0, 1), F(1, 2), F(2, 3), F(1, 1), FNaN }

\* The threshold factors: negative, zero, below one, one, the 1.1 of main()
\* and two.
ThresholdFactors ==
    { F(0 - 1, 1), F(0, 1), F(1, 2), F(1, 1), MainThresholdFactor, F(2, 1) }

InitSel ==
    /\ sel_centrality \in
           UNION { [0..(n - 1) -> MapValues] : n \in 0..MaxMapNodes }
    /\ sel_factor \in ThresholdFactors
    /\ sel_called = "none"
    /\ sel_result = {}
    /\ PipelineIdle
    /\ PairIdle
    /\ AggIdle

CallIdentifyHighCentralityNodes ==
    /\ sel_called = "none"
    /\ IF threshold(sel_centrality, sel_factor) = DivisionPanic
       THEN /\ sel_called' = "panicked"
            /\ sel_result' = {}
       ELSE /\ sel_called' = "identify_high_centrality_nodes"
            /\ sel_result' =
                   identify_high_centrality_nodes(sel_centrality, sel_factor)
    /\ UNCHANGED << sel_centrality, sel_factor >>
    /\ UNCHANGED << pipelineVars, pairVars, aggVars >>

NextSel == CallIdentifyHighCentralityNodes

SpecSel == InitSel /\ [][NextSel]_vars

\* The product of the denominators of the values at keys.
RECURSIVE DenProduct(_, _)
DenProduct(map, keys) ==
    IF keys = {} THEN 1
    ELSE LET k == CHOOSE k \in keys : TRUE
         IN  map[k].den * DenProduct(map, keys \ { k })

\* The numerator of the sum of the values at keys over the denominator d.
RECURSIVE NumSum(_, _, _)
NumSum(map, keys, d) ==
    IF keys = {} THEN 0
    ELSE LET k == CHOOSE k \in keys : TRUE
         IN  map[k].num * (d \div map[k].den) + NumSum(map, keys \ { k }, d)

\* The nodes of a map of numbers whose value is strictly greater than
\* factor * (sum of all values / number of nodes); none when a value is NaN,
\* which no comparison exceeds.
StrictlyAboveThreshold(map, factor) ==
    IF \E k \in DOMAIN map : FIsNaN(map[k]) THEN {}
    ELSE LET d == DenProduct(map, DOMAIN map)
             s == NumSum(map, DOMAIN map, d)
             n == Cardinality(DOMAIN map)
         IN  { k \in DOMAIN map :
                 map[k].num * factor.den * d * n > factor.num * s * map[k].den }

\* The value of node k is exactly the threshold.
AtThreshold(map, factor, k) ==
    /\ \A j \in DOMAIN map : ~ FIsNaN(map[j])
    /\ LET d == DenProduct(map, DOMAIN map)
           s == NumSum(map, DOMAIN map, d)
           n == Cardinality(DOMAIN map)
       IN  map[k].num * factor.den * d * n = factor.num * s * map[k].den

\* C10: for every non-empty centrality map and every threshold multiplier,
\* identify_high_centrality_nodes returns exactly the nodes whose centrality
\* is strictly greater than multiplier * (sum of all centralities / number
\* of nodes); a node at the threshold is not returned, nor any node outside
\* the map.
C10_StrictlyAboveThreshold ==
    (sel_called = "identify_high_centrality_nodes" /\ DOMAIN sel_centrality # {})
        => /\ sel_result = StrictlyAboveThreshold(sel_centrality, sel_factor)
           /\ sel_result \subseteq DOMAIN sel_centrality
           /\ \A k \in DOMAIN sel_centrality :
                  AtThreshold(sel_centrality, sel_factor, k) => k \notin sel_result

\* A map with a node above the threshold, which is returned, and a node
\* exactly at a non-zero threshold, which is not.
C10_Witness ==
    /\ sel_called = "identify_high_centrality_nodes"
    /\ sel_result # {}
    /\ \E k \in DOMAIN sel_centrality :
           /\ AtThreshold(sel_centrality, sel_factor, k)
           /\ sel_centrality[k].num > 0
           /\ k \notin sel_result

\* C11: on an empty centrality map identify_high_centrality_nodes returns,
\* for every threshold multiplier, without failing, and what it returns is
\* empty.
C11_EmptyMapGivesEmptyResult ==
    (sel_called \notin { "none", "idle" } /\ DOMAIN sel_centrality = {})
        => /\ sel_called = "identify_high_centrality_nodes"
           /\ sel_result = {}

\* The selector has returned on an empty map with the multiplier of main(),
\* whose threshold is NaN.
C11_Witness ==
    /\ sel_called = "identify_high_centrality_nodes"
    /\ DOMAIN sel_centrality = {}
    /\ sel_factor = MainThresholdFactor
    /\ FIsNaN(threshold(sel_centrality, sel_factor))
    /\ sel_result = {}

-----------------------------------------------------------------------------
(* Properties of the trait aggregator                                      *)

ChurnReportDone == pc \in { "not_churn_report", "done" }

NotChurnReportDone == pc = "done"

\* The outcome of a call that found no high centrality nodes: success, the
\* one line saying so, no call of find_top_shared_characteristics, empty
\* tallies, a grand total never added up and no percentage.
NoHighCentralityOutcome(outcome) ==
    /\ outcome.result = "Ok"
    /\ outcome.printed = << "No high centrality nodes." >>
    /\ DOMAIN outcome.shared_characteristics = {}
    /\ DOMAIN outcome.total_characteristic_counts = {}
    /\ DOMAIN outcome.separated_counts = {}
    /\ outcome.total_sum = 0
    /\ DOMAIN outcome.report = {}

\* C14: print_top_shared_characteristics called with an empty list of high
\* centrality nodes prints "No high centrality nodes." and returns Ok, with
\* no tally and no percentage computed.
C14_EmptyHighCentralityReported ==
    /\ (ChurnReportDone /\ churn_high_centrality_nodes = {})
           => NoHighCentralityOutcome(churn_report)
    /\ (NotChurnReportDone /\ not_churn_high_centrality_nodes = {})
           => NoHighCentralityOutcome(not_churn_report)

\* main() has run to its end on customers none of whom is churned, one of
\* the others being a high centrality node: the first call took the early
\* return, the second printed a report.
C14_Witness ==
    /\ pc = "done"
    /\ Len(customers) > 0
    /\ churn_customers = << >>
    /\ churn_high_centrality_nodes = {}
    /\ churn_report.printed = << "No high centrality nodes." >>
    /\ not_churn_high_centrality_nodes # {}
    /\ not_churn_report.printed # churn_report.printed

\* The number of distinct neighbors u of v with a valid index whose shared
\* characteristics with v contain the characteristic.
DistinctNeighborsSharing(g, v, cs, characteristic) ==
    Cardinality({ u \in NeighborSet(g, v) :
                    /\ u < Len(cs)
                    /\ characteristic \in
                           Range(get_shared_characteristics(At(cs, v),
                                                            At(cs, u))) })

\* Every count returned for a node is the number of its distinct neighbors
\* that share the characteristic.
CountsDistinctNeighbors(g, cs, outcome) ==
    \A v \in DOMAIN outcome.shared_characteristics :
        \A i \in DOMAIN outcome.shared_characteristics[v] :
            LET entry == outcome.shared_characteristics[v][i]
            IN  entry[2] = DistinctNeighborsSharing(g, v, cs, entry[1])

\* C15: for every selected node v the count find_top_shared_characteristics
\* tallies for a characteristic is the number of distinct neighbors u of v
\* (with a valid customer index) whose get_shared_characteristics(v, u)
\* contains it: each neighbor counts once.
C15_TallyCountsEachNeighborOnce ==
    /\ ChurnReportDone
           => CountsDistinctNeighbors(graph, churn_customers, churn_report)
    /\ NotChurnReportDone
           => CountsDistinctNeighbors(graph, not_churn_customers,
                                      not_churn_report)

\* The distinct characteristics among the first k met, in the order in which
\* each was met first.
RECURSIVE FirstOccurrences(_, _)
FirstOccurrences(met, k) ==
    IF k = 0 THEN << >>
    ELSE LET before == FirstOccurrences(met, k - 1)
         IN  IF met[k] \in Range(before) THEN before
             ELSE Append(before, met[k])

\* entry put into a vector in descending order of count, behind the entries
\* of the same count.
RECURSIVE InsertedByCount(_, _)
InsertedByCount(sorted, entry) ==
    IF sorted = << >> THEN << entry >>
    ELSE IF Head(sorted)[2] >= entry[2]
         THEN << Head(sorted) >> \o InsertedByCount(Tail(sorted), entry)
         ELSE << entry >> \o sorted

\* The first k entries of vec sorted stably in descending order of count.
RECURSIVE StablySorted(_, _)
StablySorted(vec, k) ==
    IF k = 0 THEN << >>
    ELSE InsertedByCount(StablySorted(vec, k - 1), vec[k])

\* The characteristics of met with their number of occurrences, in the order
\* in which each was met first, sorted stably by descending count, the first
\* four of them.
RankedFirstFour(met) ==
    LET order  == FirstOccurrences(met, Len(met))
        vec    == [ i \in DOMAIN order |->
                      << order[i],
                         Cardinality({ j \in DOMAIN met : met[j] = order[i] }) >> ]
        sorted == StablySorted(vec, Len(vec))
    IN  SubSeq(sorted, 1, Min(4, Len(sorted)))

\* The entries of node v ranked by count and discovery.
RankedByDiscovery(g, v, cs) ==
    RankedFirstFour(counted_characteristics(neighbors(g, v), v, cs, 1))

ReturnsRankedByDiscovery(g, cs, outcome) ==
    \A v \in DOMAIN outcome.shared_characteristics :
        outcome.shared_characteristics[v] = RankedByDiscovery(g, v, cs)

\* C12: for every selected node find_top_shared_characteristics returns at
\* most 4 (characteristic, count) entries, those of the highest counts in
\* descending order, entries of equal count in the order in which their
\* characteristic was first met while scanning the neighbors; the returned
\* vector is thereby determined by the graph and the customers.
C12_TopFourTiesByDiscovery ==
    /\ ChurnReportDone
           => ReturnsRankedByDiscovery(graph, churn_customers, churn_report)
    /\ NotChurnReportDone
           => ReturnsRankedByDiscovery(graph, not_churn_customers,
                                       not_churn_report)

-----------------------------------------------------------------------------
(* The report loop on its own                                              *)

\* The largest number of distinct values of a category and the largest
\* count of one value.
MaxValues == 7

MaxCount == 4

\* The k-th value of the category "Age": "20", "21", ...
AgeValue(k) == i32_to_string(19 + k)

\* The counts of k values, smallest first (the percentages of a category do
\* not depend on which value has which count).
CountVectors(k) ==
    { c \in [1..k -> 1..MaxCount] : \A i \in 1..(k - 1) : c[i] <= c[i + 1] }

\* entry_counts of the category "Age" with the counts c.
AgeCounts(c) ==
    [ value \in { AgeValue(i) : i \in DOMAIN c } |->
          c[CHOOSE i \in DOMAIN c : AgeValue(i) = value] ]

\* separated_counts after the node loop: the category "Age" with up to
\* MaxValues values, alone or beside the category "Card Type".
SeparatedCounts ==
    UNION { { [ key \in { "Age" } |-> AgeCounts(c) ],
              [ key \in { "Age", "Card Type" } |->
                    IF key = "Age" THEN AgeCounts(c)
                    ELSE [ value \in { "Blue" } |-> c[1] ] ] } :
            c \in UNION { CountVectors(k) : k \in 1..MaxValues } }

InitReport ==
    /\ agg_separated_counts \in SeparatedCounts
    /\ agg_called = "none"
    /\ agg_report = << >>
    /\ PipelineIdle
    /\ PairIdle
    /\ SelIdle

\* Lines 81-97 of print_top_shared_characteristics.
RunReportLoop ==
    /\ agg_called = "none"
    /\ agg_called' = "report"
    /\ agg_report' = report_of(agg_separated_counts)
    /\ UNCHANGED agg_separated_counts
    /\ UNCHANGED << pipelineVars, pairVars, selVars >>

NextReport == RunReportLoop

SpecReport == InitReport /\ [][NextReport]_vars

\* The sum, in tenths of a percent, of the value percentages printed for a
\* category.
RECURSIVE PercentageTenths(_, _)
PercentageTenths(entries, values) ==
    IF values = {} THEN 0
    ELSE LET v == CHOOSE v \in values : TRUE
             p == entries[v].rounded_percentage
         IN  (p.num * 10) \div p.den + PercentageTenths(entries, values \ { v })

\* How far the sum of the value percentages of a category is from 100, in
\* tenths of a percent.
DeviationTenths(key) ==
    Abs(PercentageTenths(agg_report[key].entries,
                         DOMAIN agg_report[key].entries) - 1000)

\* C13 as stated: for every category of the report the sum of its value
\* percentages, each 100 * count / category total rounded to one decimal,
\* lies within 100 +- 0.2, whatever the number of values and the counts.
C13_ValuePercentagesSumWithinTwoTenths ==
    agg_called = "report"
        => \A key \in DOMAIN agg_report : DeviationTenths(key) <= 2

\* C13 amended: the sum of the value percentages of a category with k
\* distinct values lies within 100 +- 0.05 * k (every value is off by at most
\* half a tenth), and each value percentage is 100 * count / category total
\* to the nearest tenth.
C13_ValuePercentagesSumWithinHalfTenthPerValue ==
    agg_called = "report"
        => \A key \in DOMAIN agg_report :
               LET entries == agg_report[key].entries
               IN  /\ DOMAIN entries = DOMAIN agg_separated_counts[key]
                   /\ 2 * DeviationTenths(key) <= Cardinality(DOMAIN entries)
                   /\ \A v \in DOMAIN entries :
                          LET p == entries[v].rounded_percentage
                              tenths == (p.num * 10) \div p.den
                          IN  /\ (p.num * 10) % p.den = 0
                              /\ 2 * Abs(tenths * agg_report[key].total_count
                                         - 1000 * entries[v].count)
                                     <= agg_report[key].total_count

\* A category of seven values, three counted once and four counted four
\* times: 3 * 5.3 + 4 * 21.1 = 100.3.
C13_Witness ==
    /\ agg_called = "report"
    /\ Cardinality(DOMAIN agg_report["Age"].entries) = 7
    /\ agg_report["Age"].total_count = 19
    /\ PercentageTenths(agg_report["Age"].entries,
                        DOMAIN agg_report["Age"].entries) = 1003

====
